---- MODULE Spec2Model ----
(***************************************************************************)
(* Model of client/src/extension.ts: the VS Code side of Pyright.  The     *)
(* module-level map `clients` is the session registry; activate() picks    *)
(* single-root or multi-root mode, runLanguageClientOnDemand creates a     *)
(* LanguageClient per workspace folder on demand, the                      *)
(* onDidChangeWorkspaceFolders handler stops the clients of removed        *)
(* folders and deactivate() stops every registered client.                 *)
(*                                                                         *)
(* Every handler of extension.ts runs to completion on the single          *)
(* JavaScript thread, so each handler is one action.  What is asynchronous *)
(* is the LanguageClient itself: the completion of start() and of stop()   *)
(* are separate steps of the environment.                                  *)
(***************************************************************************)
EXTENDS Naturals, Sequences, FiniteSets

\* ---------------------------------------------------------------- bounds

\* Workspace roots are 1..NumRoots.
NumRoots == 2

\* LanguageClients created over one run (caps the creation counter).
MaxSessions == 2

\* Documents already open when activate() runs.
MaxOpenDocs == 2

\* Progress tokens a server can use are 1..NumTokens.
NumTokens == 1

\* Progress events the servers cause over one run (caps the event log).
MaxEvents == 2

\* LanguageClients created over one run when progress is followed.
MaxProgressSessions == 1

Roots == 1..NumRoots

Tokens == 1..NumTokens

\* A document that lies under no workspace root.
NoRoot == 0

\* ------------------------------------------------------------ data model

\* folder.uri.toString(): the registry key of a workspace folder.
UriKey(r) == <<"uri", r>>

\* Workspace.rootPath: the file-system path of the first workspace folder,
\* a different string from the folder's uri.
PathKey(r) == <<"path", r>>

\* The '/' fallback used when Workspace.rootPath is undefined.
DefaultKey == <<"default", NoRoot>>

\* The TextDocuments the editor can report: language id, uri scheme and the
\* root directory the file lies under (NoRoot: outside every root).
Documents ==
    [languageId : {"python", "other"}, scheme : {"file", "untitled"},
     loc : Roots \cup {NoRoot}]

\* The empty Map.
EmptyMap == [k \in {} |-> 0]

\* Map.set
MapSet(m, k, v) == [x \in DOMAIN m \cup {k} |-> IF x = k THEN v ELSE m[x]]

\* Map.values()
MapValues(m) == {m[k] : k \in DOMAIN m}

\* ----------------------------------------------------------------- state

VARIABLES
    pc,         \* "init" | "active" | "deactivating" | "deactivated"
    mode,       \* "none" | "single" | "multi": the branch activate() took
    folders,    \* Workspace.workspaceFolders, as a set of roots
    clients,    \* the module-level Map: key -> index into sessions
    sessions,   \* every LanguageClient created, in creation order
    promises,   \* deactivate()'s promises: the clients it asked to stop
    progress,   \* per client, its ProgressReporting: the Active tokens
    log         \* the progress events emitted to the UI, in order

vars == <<pc, mode, folders, clients, sessions, promises, progress, log>>

\* ------------------------------------------------------- LanguageClient

\* new LanguageClient(...) followed by languageClient.start(): the client
\* is Starting as soon as start() returns.
NewClient(key) ==
    [key |-> key, state |-> "Starting", exit |-> "none", stops |-> 0]

\* client.stop(): a Starting or Running client becomes Stopping at once;
\* stopping a client that is already Stopping or Stopped changes no state.
StopClient(s) ==
    [s EXCEPT !.state = IF s.state \in {"Starting", "Running"}
                        THEN "Stopping" ELSE s.state,
              !.stops = s.stops + 1]

\* client.stop() applied to the clients in `ids`.
StopAll(ss, ids) ==
    [i \in DOMAIN ss |-> IF i \in ids THEN StopClient(ss[i]) ELSE ss[i]]

\* --------------------------------------------------- extension.ts helpers

\* runLanguageClient: creates and starts a client; returns the registry
\* state with the client appended (its index is the returned client).
runLanguageClient(ss, key) == Append(ss, NewClient(key))

\* Qualifies without the test of the uri scheme.
Qualifies_LanguageOnly(doc) == doc.languageId = "python"

\* new ProgressReporting(languageClient) for every client of ss that has
\* none yet: no token is Active.
Allocate(prog, ss) ==
    [i \in DOMAIN ss |-> IF i \in DOMAIN prog THEN prog[i] ELSE {}]

\* document.languageId === 'python' && document.uri.scheme === 'file'
Qualifies(doc) == doc.languageId = "python" /\ doc.scheme = "file"

\* A lookup that answers with the document's folder whether or not that
\* folder is in the workspace.
getWorkspaceFolder_Any(doc, fs) == doc.loc

\* Workspace.getWorkspaceFolder(document.uri): the workspace folder that
\* contains the document, NoRoot (undefined) when there is none.
getWorkspaceFolder(doc, fs) == IF doc.loc \in fs THEN doc.loc ELSE NoRoot

\* Creates without the clients.has(...) test of line 48.
Creates_NoHasCheck(c, doc, fs) ==
    /\ doc.languageId = "python" /\ doc.scheme = "file"
    /\ doc.loc \in fs

\* Whether runLanguageClientOnDemand gets past both early returns.
Creates(c, doc, fs) ==
    /\ Qualifies(doc)
    /\ getWorkspaceFolder(doc, fs) # NoRoot
    /\ UriKey(getWorkspaceFolder(doc, fs)) \notin DOMAIN c

\* runLanguageClientOnDemand that replaces the registered client of the
\* folder instead of returning early.
runLanguageClientOnDemand_Restart(st, doc, fs) ==
    IF Qualifies(doc) /\ getWorkspaceFolder(doc, fs) # NoRoot
    THEN LET key == UriKey(getWorkspaceFolder(doc, fs))
             ss2 == runLanguageClient(st.ss, key)
         IN  [c |-> MapSet(st.c, key, Len(ss2)), ss |-> ss2]
    ELSE st

\* runLanguageClientOnDemand that starts a new client when the registered
\* one has failed to start.
runLanguageClientOnDemand_RetryFailed(st, doc, fs) ==
    LET key == UriKey(getWorkspaceFolder(doc, fs))
        ss2 == runLanguageClient(st.ss, key)
    IN  IF /\ Qualifies(doc)
           /\ getWorkspaceFolder(doc, fs) # NoRoot
           /\ \/ key \notin DOMAIN st.c
              \/ st.ss[st.c[key]].exit = "startFailed"
        THEN [c |-> MapSet(st.c, key, Len(ss2)), ss |-> ss2]
        ELSE st

\* runLanguageClientOnDemand on registry state st = [c, ss].
runLanguageClientOnDemand(st, doc, fs) ==
    IF Creates(st.c, doc, fs)
    THEN LET key == UriKey(getWorkspaceFolder(doc, fs))
             ss2 == runLanguageClient(st.ss, key)
         IN  [c |-> MapSet(st.c, key, Len(ss2)), ss |-> ss2]
    ELSE st

\* A scan that looks at the first open document only.
ScanDocuments_FirstOnly(st, docs, fs) ==
    IF docs = << >> THEN st
    ELSE runLanguageClientOnDemand(st, Head(docs), fs)

\* Workspace.textDocuments.forEach(runLanguageClientOnDemand)
RECURSIVE ScanDocuments(_, _, _)
ScanDocuments(st, docs, fs) ==
    IF docs = << >> THEN st
    ELSE ScanDocuments(runLanguageClientOnDemand(st, Head(docs), fs),
                       Tail(docs), fs)

\* A registry key that never depends on the workspace folder.
RootKey_AlwaysDefault(fs) == DefaultKey

\* Workspace.rootPath || '/'
RootKey(fs) ==
    IF fs = {} THEN DefaultKey
    ELSE PathKey(CHOOSE r \in fs : \A q \in fs : r <= q)

\* The removed folders that have a client in the registry.
RemovedKeys(c, removed) == {UriKey(r) : r \in removed} \cap DOMAIN c

\* A loop that stops the clients but leaves their entries in the registry.
ClientsAfterRemoval_KeepsEntries(c, removed) == c

\* The registry after the onDidChangeWorkspaceFolders loop.
ClientsAfterRemoval(c, removed) ==
    [k \in DOMAIN c \ RemovedKeys(c, removed) |-> c[k]]

\* A loop that stops every registered client as soon as a folder is removed.
StoppedByRemoval_All(c, removed) ==
    IF removed = {} THEN {} ELSE MapValues(c)

\* The clients the onDidChangeWorkspaceFolders loop calls stop() on.
StoppedByRemoval(c, removed) == {c[k] : k \in RemovedKeys(c, removed)}

\* A deactivate() that stops every client ever created.
StoppedByDeactivate_Every(c) == DOMAIN sessions

\* The clients deactivate() calls stop() on.
StoppedByDeactivate(c) == MapValues(c)

\* ---------------------------------------------------------------- Init

Init ==
    /\ pc = "init"
    /\ mode = "none"
    /\ folders \in SUBSET Roots
    /\ clients = EmptyMap
    /\ sessions = << >>
    /\ promises = {}
    /\ progress = << >>
    /\ log = << >>

\* Sequences over S of length at most n.
SeqsUpTo(S, n) == UNION {[1..k -> S] : k \in 0..n}

\* The possible values of Workspace.textDocuments when activate() runs.
TextDocuments == SeqsUpTo(Documents, MaxOpenDocs)

\* ------------------------------------------------------ ProgressReporting

\* A progress event emitted to the UI.
UiEvent(i, t, phase) == [session |-> i, token |-> t, phase |-> phase]

\* "begin" for token t of client i: a token that is not Active gets a
\* record and a "started" event; a begin for an Active token is ignored.
OnBegin(st, i, t) ==
    IF t \notin st.p[i]
    THEN [p |-> [st.p EXCEPT ![i] = @ \cup {t}],
          l |-> Append(st.l, UiEvent(i, t, "started"))]
    ELSE st

\* "report" for token t of client i: an "updated" event for an Active
\* token; a report for an unknown token is ignored.
OnReport(st, i, t) ==
    IF t \in st.p[i]
    THEN [p |-> st.p, l |-> Append(st.l, UiEvent(i, t, "updated"))]
    ELSE st

\* OnEnd that emits "finished" and keeps the record.
OnEnd_KeepsRecord(st, i, t) ==
    IF t \in st.p[i]
    THEN [p |-> st.p, l |-> Append(st.l, UiEvent(i, t, "finished"))]
    ELSE st

\* "end" for token t of client i: a "finished" event for an Active token,
\* whose record is deleted; an end for an unknown token is ignored.
OnEnd(st, i, t) ==
    IF t \in st.p[i]
    THEN [p |-> [st.p EXCEPT ![i] = @ \ {t}],
          l |-> Append(st.l, UiEvent(i, t, "finished"))]
    ELSE st

\* The "finished" events that close the tokens of S for client i, lowest
\* token first.
RECURSIVE CloseEvents(_, _)
CloseEvents(i, S) ==
    IF S = {} THEN << >>
    ELSE LET t == CHOOSE x \in S : \A y \in S : x <= y
         IN  <<UiEvent(i, t, "finished")>> \o CloseEvents(i, S \ {t})

\* ProgressReporting.dispose() of the clients i, i+1, ...: the synthetic
\* "finished" events of every still Active token.
RECURSIVE DisposeEvents(_, _)
DisposeEvents(prog, i) ==
    IF i > Len(prog) THEN << >>
    ELSE CloseEvents(i, prog[i]) \o DisposeEvents(prog, i + 1)

\* The ProgressReporting objects after their disposal: no Active token.
Disposed(prog) == [i \in DOMAIN prog |-> {}]

\* -------------------------------------------------------------- actions

\* activate() with `docs` the documents already open: multi-root mode when
\* there are at least two workspace folders, single-root mode otherwise.
activate(docs) ==
    /\ pc = "init"
    /\ pc' = "active"
    /\ IF Cardinality(folders) > 1
       THEN LET st == ScanDocuments([c |-> clients, ss |-> sessions],
                                    docs, folders)
            IN  /\ Len(st.ss) <= MaxSessions
                /\ mode' = "multi"
                /\ clients' = st.c
                /\ sessions' = st.ss
       ELSE LET ss2 == runLanguageClient(sessions, RootKey(folders))
            IN  /\ mode' = "single"
                /\ sessions' = ss2
                /\ clients' = MapSet(clients, RootKey(folders), Len(ss2))
    /\ progress' = Allocate(progress, sessions')
    /\ UNCHANGED <<folders, promises, log>>

\* A document listener that is registered in single-root mode as well.
onDidOpenTextDocument_AnyMode(doc) ==
    /\ pc \in {"active", "deactivating"}
    /\ LET st == runLanguageClientOnDemand(
                     [c |-> clients, ss |-> sessions], doc, folders)
       IN  /\ Len(st.ss) <= MaxSessions
           /\ clients' = st.c
           /\ sessions' = st.ss
    /\ progress' = Allocate(progress, sessions')
    /\ UNCHANGED <<pc, mode, folders, promises, log>>

\* The editor opens document `doc`.  In multi-root mode the
\* onDidOpenTextDocument listener runs runLanguageClientOnDemand; in
\* single-root mode no listener is registered.
onDidOpenTextDocument(doc) ==
    /\ pc \in {"active", "deactivating"}
    /\ IF mode = "multi"
       THEN LET st == runLanguageClientOnDemand(
                         [c |-> clients, ss |-> sessions], doc, folders)
            IN  /\ Len(st.ss) <= MaxSessions
                /\ clients' = st.c
                /\ sessions' = st.ss
       ELSE UNCHANGED <<clients, sessions>>
    /\ progress' = Allocate(progress, sessions')
    /\ UNCHANGED <<pc, mode, folders, promises, log>>

\* A folder listener that also starts a client for every added folder.
onDidChangeWorkspaceFolders_StartsAdded(added, removed) ==
    /\ pc \in {"active", "deactivating"}
    /\ added \cup removed # {}
    /\ folders' = (folders \ removed) \cup added
    /\ IF mode = "multi" /\ added # {}
       THEN LET key == UriKey(CHOOSE r \in added : TRUE)
                c2 == ClientsAfterRemoval(clients, removed)
                ss2 == runLanguageClient(
                          StopAll(sessions, StoppedByRemoval(clients, removed)),
                          key)
            IN  /\ Len(ss2) <= MaxSessions
                /\ key \notin DOMAIN c2
                /\ clients' = MapSet(c2, key, Len(ss2))
                /\ sessions' = ss2
       ELSE /\ clients' = ClientsAfterRemoval(clients, removed)
            /\ sessions' = StopAll(sessions,
                                   StoppedByRemoval(clients, removed))
    /\ progress' = Allocate(progress, sessions')
    /\ UNCHANGED <<pc, mode, promises, log>>

\* The workspace folders change.  In multi-root mode the
\* onDidChangeWorkspaceFolders listener deletes and stops the client of
\* every removed folder; added folders are not looked at.
onDidChangeWorkspaceFolders(added, removed) ==
    /\ pc \in {"active", "deactivating"}
    /\ added \cup removed # {}
    /\ folders' = (folders \ removed) \cup added
    /\ IF mode = "multi"
       THEN /\ clients' = ClientsAfterRemoval(clients, removed)
            /\ sessions' = StopAll(sessions,
                                   StoppedByRemoval(clients, removed))
       ELSE UNCHANGED <<clients, sessions>>
    /\ UNCHANGED <<pc, mode, promises, progress, log>>

\* A deactivate() that also clears the registry.
deactivate_Clearing ==
    /\ pc = "active"
    /\ pc' = "deactivating"
    /\ promises' = StoppedByDeactivate(clients)
    /\ sessions' = StopAll(sessions, StoppedByDeactivate(clients))
    /\ clients' = EmptyMap
    /\ progress' = Disposed(progress)
    /\ log' = log \o DisposeEvents(progress, 1)
    /\ UNCHANGED <<mode, folders>>

\* deactivate(): calls stop() on every client of the registry and collects
\* the promises; the registry itself is not touched.  The extension is
\* being deactivated, so the host then disposes context.subscriptions
\* (lines 34-39): every ProgressReporting is disposed, and the start()
\* disposable of every client stops a client that, registered or removed,
\* has been asked to stop already.
deactivate ==
    /\ pc = "active"
    /\ pc' = "deactivating"
    /\ promises' = StoppedByDeactivate(clients)
    /\ sessions' = StopAll(sessions, StoppedByDeactivate(clients))
    /\ progress' = Disposed(progress)
    /\ log' = log \o DisposeEvents(progress, 1)
    /\ UNCHANGED <<mode, folders, clients>>

\* Promise.all(promises).then(() => undefined) resolves: every promise
\* deactivate() collected has resolved.
deactivateResolved ==
    /\ pc = "deactivating"
    /\ \A i \in promises : sessions[i].state = "Stopped"
    /\ pc' = "deactivated"
    /\ UNCHANGED <<mode, folders, clients, sessions, promises, progress, log>>

\* The server process of Starting client i reports ready.
StartAcknowledged(i) ==
    /\ pc # "deactivated"
    /\ sessions[i].state = "Starting"
    /\ sessions' = [sessions EXCEPT ![i].state = "Running"]
    /\ UNCHANGED <<pc, mode, folders, clients, promises, progress, log>>

\* The server process of Starting client i exits before the handshake.
\* extension.ts registers no handler for it.
StartFailed(i) ==
    /\ pc # "deactivated"
    /\ sessions[i].state = "Starting"
    /\ sessions' = [sessions EXCEPT ![i].state = "Stopped",
                                    ![i].exit = "startFailed"]
    /\ UNCHANGED <<pc, mode, folders, clients, promises, progress, log>>

\* The process of Stopping client i exits: it acknowledged the shutdown
\* ("acked"), or the grace period ran out and it was terminated ("forced").
StopCompleted(i, how) ==
    /\ pc # "deactivated"
    /\ sessions[i].state = "Stopping"
    /\ sessions' = [sessions EXCEPT ![i].state = "Stopped", ![i].exit = how]
    /\ UNCHANGED <<pc, mode, folders, clients, promises, progress, log>>

Next ==
    \/ /\ pc = "init"
       /\ \E docs \in SeqsUpTo(Documents, MaxOpenDocs) : activate(docs)
    \/ \E doc \in Documents : onDidOpenTextDocument(doc)
    \/ \E added \in SUBSET (Roots \ folders), removed \in SUBSET folders :
         onDidChangeWorkspaceFolders(added, removed)
    \/ deactivate
    \/ deactivateResolved
    \/ \E i \in DOMAIN sessions : StartAcknowledged(i)
    \/ \E i \in DOMAIN sessions : StartFailed(i)
    \/ \E i \in DOMAIN sessions, how \in {"acked", "forced"} :
         StopCompleted(i, how)

Spec == Init /\ [][Next]_vars

\* ------------------------------------------------- progress notifications

\* The events of the log about token t of client i.
EventsOf(l, i, t) ==
    SelectSeq(l, LAMBDA e : e.session = i /\ e.token = t)

\* A server is heard only while its client is Running, and it never uses
\* the token of a finished unit of work for a new one.
CanNotify(i) == sessions[i].state = "Running" /\ Len(log) < MaxEvents

Fresh(i, t) ==
    \A n \in DOMAIN log :
        ~(log[n].session = i /\ log[n].token = t /\ log[n].phase = "finished")

\* Client i receives a "begin" notification for token t.
beginProgress(i, t) ==
    /\ CanNotify(i)
    /\ Fresh(i, t)
    /\ LET st == OnBegin([p |-> progress, l |-> log], i, t)
       IN  progress' = st.p /\ log' = st.l
    /\ UNCHANGED <<pc, mode, folders, clients, sessions, promises>>

\* Client i receives a "report" notification for token t.
reportProgress(i, t) ==
    /\ CanNotify(i)
    /\ LET st == OnReport([p |-> progress, l |-> log], i, t)
       IN  progress' = st.p /\ log' = st.l
    /\ UNCHANGED <<pc, mode, folders, clients, sessions, promises>>

\* Client i receives an "end" notification for token t.
endProgress(i, t) ==
    /\ CanNotify(i)
    /\ LET st == OnEnd([p |-> progress, l |-> log], i, t)
       IN  progress' = st.p /\ log' = st.l
    /\ UNCHANGED <<pc, mode, folders, clients, sessions, promises>>

\* A step that leaves at most MaxProgressSessions clients created.
Fits == Len(sessions') <= MaxProgressSessions

\* The extension with the progress notifications of its servers, for runs
\* that create at most MaxProgressSessions clients.
NextProgress ==
    \/ /\ pc = "init"
       /\ \E docs \in SeqsUpTo(Documents, MaxOpenDocs) :
            activate(docs) /\ Fits
    \/ \E doc \in Documents : onDidOpenTextDocument(doc) /\ Fits
    \/ \E added \in SUBSET (Roots \ folders), removed \in SUBSET folders :
         onDidChangeWorkspaceFolders(added, removed)
    \/ deactivate
    \/ deactivateResolved
    \/ \E i \in DOMAIN sessions : StartAcknowledged(i)
    \/ \E i \in DOMAIN sessions : StartFailed(i)
    \/ \E i \in DOMAIN sessions, how \in {"acked", "forced"} :
         StopCompleted(i, how)
    \/ \E i \in DOMAIN sessions, t \in Tokens : beginProgress(i, t)
    \/ \E i \in DOMAIN sessions, t \in Tokens : reportProgress(i, t)
    \/ \E i \in DOMAIN sessions, t \in Tokens : endProgress(i, t)

SpecProgress == Init /\ [][NextProgress]_vars

\* ------------------------------------------------------------ type check

TypeOK ==
    /\ pc \in {"init", "active", "deactivating", "deactivated"}
    /\ mode \in {"none", "single", "multi"}
    /\ folders \subseteq Roots
    /\ Len(sessions) <= MaxSessions
    /\ \A k \in DOMAIN clients : clients[k] \in DOMAIN sessions
    /\ promises \subseteq DOMAIN sessions
    /\ DOMAIN progress = DOMAIN sessions
    /\ \A i \in DOMAIN progress : progress[i] \subseteq Tokens

\* ------------------------------------------------------------ properties

\* Sessions that have not been asked to stop and have not exited.
Live == {"Starting", "Running"}

\* The sessions created by a step.
Created == DOMAIN sessions' \ DOMAIN sessions

Range(q) == {q[i] : i \in DOMAIN q}

\* C1: the registry never holds two Sessions for one WorkspaceRootId (every
\* entry holds a Session of its own key, and no Session is held under two
\* keys), and at most one Session per root is Starting or Running.
C1_OneSessionPerRoot ==
    /\ \A k \in DOMAIN clients : sessions[clients[k]].key = k
    /\ \A k1, k2 \in DOMAIN clients : clients[k1] = clients[k2] => k1 = k2
    /\ \A i, j \in DOMAIN sessions :
         (/\ i # j
          /\ sessions[i].key = sessions[j].key
          /\ sessions[i].state \in Live) => sessions[j].state \notin Live

\* A root whose first Session was stopped has a second, live Session.
C1_Witness ==
    \E i, j \in DOMAIN sessions :
        /\ i < j
        /\ sessions[i].key = sessions[j].key
        /\ sessions[i].state \in {"Stopping", "Stopped"}
        /\ sessions[j].state \in Live
        /\ j \in MapValues(clients)

\* C2: ensure is idempotent: a qualifying document opened under a root that
\* already has a registry entry leaves the registry and the set of
\* Sessions unchanged (same Session instance, no new process).
C2_EnsureIdempotent ==
    [][\A doc \in Documents :
         (/\ mode = "multi"
          /\ onDidOpenTextDocument(doc)
          /\ doc.languageId = "python" /\ doc.scheme = "file"
          /\ doc.loc \in folders
          /\ UriKey(doc.loc) \in DOMAIN clients)
         => (clients' = clients /\ sessions' = sessions)]_vars

\* A root with a Running registered Session, its folder still present and
\* room for a further Session: a second qualifying document can be opened.
C2_Witness ==
    /\ mode = "multi"
    /\ pc = "active"
    /\ Len(sessions) < MaxSessions
    /\ \E r \in folders :
         /\ UriKey(r) \in DOMAIN clients
         /\ sessions[clients[UriKey(r)]].state = "Running"

\* C3 (as amended): deactivate() does not empty the registry: neither the
\* call nor its resolution deletes or changes an entry, and when it
\* resolves every Session it asked to stop is Stopped.
C3_DeactivateKeepsRegistry ==
    [][(\/ pc = "active" /\ pc' = "deactivating"
        \/ pc = "deactivating" /\ pc' = "deactivated")
       => /\ clients' = clients
          /\ pc' = "deactivating" => promises' = MapValues(clients)
          /\ pc' = "deactivated" =>
               \A i \in promises' : sessions'[i].state = "Stopped"]_vars

\* deactivate() has resolved, one stop was forced after the grace period,
\* and the registry still holds entries.
C3_Witness ==
    /\ pc = "deactivated"
    /\ DOMAIN clients # {}
    /\ \E i \in MapValues(clients) : sessions[i].exit = "forced"

\* C3 (as stated): after deactivate() resolves the registry is empty.
C3_EmptyAfterDeactivate == pc = "deactivated" => DOMAIN clients = {}

\* C4 (as stated): ensure and remove on one root are serialized: a Session
\* for a root is started only once every earlier Session of that root has
\* fully stopped.  (Stopped is final, so this is the same as: whenever two
\* Sessions of one root exist, the earlier one is Stopped.)
C4_StartWaitsForStop ==
    \A i, j \in DOMAIN sessions :
        (i < j /\ sessions[i].key = sessions[j].key)
        => sessions[i].state = "Stopped"

\* C5 (as stated): when deactivate() resolves no Session is left behind:
\* every Session that has been asked to stop, by a root removal or by
\* deactivate() itself, is Stopped (none is still Stopping).  Sessions
\* created after deactivate() was called have stops = 0 and are left out,
\* so a violation never rests on them.
C5_NoOrphanAfterDeactivate ==
    pc = "deactivated" =>
        \A i \in DOMAIN sessions :
            sessions[i].stops > 0 => sessions[i].state = "Stopped"

\* C6 (as amended): activation with at most one workspace root creates
\* exactly one Session at once and registers it under Workspace.rootPath:
\* the path of the single root when there is one, the sentinel default id
\* only when there is none.
C6_SingleRootKey ==
    [][(pc = "init" /\ pc' = "active" /\ Cardinality(folders) <= 1)
       => /\ mode' = "single"
          /\ Len(sessions') = 1
          /\ sessions'[1].state = "Starting"
          /\ clients' = MapSet(EmptyMap, sessions'[1].key, 1)
          /\ folders = {} => sessions'[1].key = DefaultKey
          /\ \A r \in folders : sessions'[1].key = PathKey(r)]_vars

\* Single-root mode with one workspace root: the one Session is registered
\* under that root's path.
C6_Witness ==
    /\ mode = "single"
    /\ Len(sessions) = 1
    /\ \E r \in Roots : DOMAIN clients = {PathKey(r)}

\* C6 (as stated): in single-root mode exactly one Session exists, keyed to
\* the sentinel default id and to no specific root.
C6_SingleKeyedDefault ==
    mode = "single" => (Len(sessions) = 1 /\ DOMAIN clients = {DefaultKey})

\* C7: in multi-root mode Sessions are created only on demand: every step
\* that creates a Session for a root is the observation (at activation or
\* by a document-opened event) of a qualifying document under that root,
\* a present workspace folder; a folder change alone creates none.
C7_OnDemandOnly ==
    [][\A n \in Created :
         mode' = "multi" =>
           \E doc \in Documents :
             /\ doc.languageId = "python" /\ doc.scheme = "file"
             /\ doc.loc \in folders
             /\ sessions'[n].key = UriKey(doc.loc)
             /\ \/ onDidOpenTextDocument(doc)
                \/ /\ pc = "init"
                   /\ \E docs \in SeqsUpTo(Documents, MaxOpenDocs) :
                        doc \in Range(docs) /\ activate(docs)]_vars

\* Scenario B: roots 1 and 2 present, one Session, for root 1, and none
\* for root 2.
C7_Witness ==
    /\ mode = "multi"
    /\ {1, 2} \subseteq folders
    /\ Len(sessions) = 1
    /\ sessions[1].key = UriKey(1)
    /\ DOMAIN clients = {UriKey(1)}

\* C8: in multi-root mode a document-opened event for a document that is
\* not qualifying (wrong language or wrong scheme), or that lies under no
\* workspace folder, creates no Session and leaves the registry unchanged.
C8_IgnoredDocuments ==
    [][\A doc \in Documents :
         (/\ mode = "multi"
          /\ onDidOpenTextDocument(doc)
          /\ \/ doc.languageId # "python"
             \/ doc.scheme # "file"
             \/ doc.loc \notin folders)
         => (clients' = clients /\ sessions' = sessions)]_vars

\* Multi-root mode with a root that was removed from the workspace (its
\* documents have no enclosing folder), a folder without a Session and
\* room for a further Session: an ignored document would be noticed.
C8_Witness ==
    /\ mode = "multi"
    /\ pc = "active"
    /\ Len(sessions) < MaxSessions
    /\ folders # Roots
    /\ \E r \in folders : UriKey(r) \notin DOMAIN clients

\* C9 (as stated): the entry of a removed root is never deleted while its
\* Session is still Starting or Running.  The handler deletes the entry
\* (line 78) before it calls stop() (line 79), so the Session's state when
\* the entry is deleted is its state before the step.
C9_StoppingBeforeDelete ==
    [][\A k \in DOMAIN clients \ DOMAIN clients' :
         sessions[clients[k]].state \notin Live]_vars

\* Key k holds a registered Session whose start failed.
FailedRegistered(k) ==
    /\ k \in DOMAIN clients
    /\ sessions[clients[k]].exit = "startFailed"

C11_NoActiveAfterStop ==
    \A i \in DOMAIN sessions :
        sessions[i].state = "Stopped" => progress[i] = {}

\* The phases of one token, in the order emitted, are a prefix of
\* started, updated ..., finished.
WellOrdered(q) ==
    \/ q = << >>
    \/ /\ q[1].phase = "started"
       /\ \A n \in 2..Len(q) :
            /\ q[n].phase \in {"updated", "finished"}
            /\ q[n].phase = "finished" => n = Len(q)

C13_ModeFixed ==
    /\ [][mode # "none" => mode' = mode]_vars
    /\ [](mode = "single" =>
            /\ Len(sessions) = 1
            /\ clients = MapSet(EmptyMap, sessions[1].key, 1)
            /\ pc = "active" =>
                 (sessions[1].stops = 0 /\ sessions[1].state # "Stopping"))

\* Single-root mode, still active, after folders were added: the workspace
\* now has several roots and the one Session is Running.
C13_Witness ==
    /\ mode = "single"
    /\ pc = "active"
    /\ Cardinality(folders) > 1
    /\ sessions[1].state = "Running"

\* The roots that enclose a qualifying document of docs.
SeededRoots(docs, fs) ==
    {d.loc : d \in {x \in Range(docs) :
                      /\ x.languageId = "python" /\ x.scheme = "file"
                      /\ x.loc \in fs}}

\* C14: activation in multi-root mode leaves exactly one Session, just
\* started and registered under the root's key, for each root that
\* encloses an already-open qualifying document, and no other Session.
C14_PreSeed ==
    [][(pc = "init" /\ Cardinality(folders) > 1) =>
       \A docs \in TextDocuments :
         activate(docs)
         => /\ DOMAIN clients' = {UriKey(r) : r \in SeededRoots(docs, folders)}
            /\ Len(sessions') = Cardinality(SeededRoots(docs, folders))
            /\ \A k \in DOMAIN clients' :
                 /\ sessions'[clients'[k]].key = k
                 /\ sessions'[clients'[k]].state = "Starting"]_vars

\* Right after a multi-root activation (nothing has been asked to stop or
\* has left Starting): one pre-seeded Session for each of two roots.
C14_Witness ==
    /\ mode = "multi"
    /\ pc = "active"
    /\ DOMAIN clients = {UriKey(1), UriKey(2)}
    /\ Len(sessions) = 2
    /\ \A i \in DOMAIN sessions : sessions[i].state = "Starting"

\* The sessions registered under a removed folder.
Affected(removed) == {clients[k] : k \in RemovedKeys(clients, removed)}

\* C15: a folder-change event leaves every registry entry of a folder that
\* was not removed, and every Session other than those registered under a
\* removed folder, exactly as it was; it creates nothing; and when no
\* removed folder has an entry it changes neither registry nor Sessions.
\* The handler reads event.removed only: a step it takes for some added
\* folders is the step it takes when all folders present afterwards are
\* reported as added, so the formula names the event by its removed folders.
C15_RemovalIsLocal ==
    [][\A removed \in SUBSET Roots :
         onDidChangeWorkspaceFolders(folders', removed)
         => /\ DOMAIN clients' = DOMAIN clients \ {UriKey(r) : r \in removed}
            /\ \A k \in DOMAIN clients' : clients'[k] = clients[k]
            /\ Len(sessions') = Len(sessions)
            /\ \A i \in DOMAIN sessions :
                 i \notin Affected(removed) => sessions'[i] = sessions[i]
            /\ Affected(removed) = {}
                 => (clients' = clients /\ sessions' = sessions)]_vars

\* Folder 1 was removed while folder 2 stayed: the session of folder 1 was
\* asked to stop and left the registry, the session of folder 2 is
\* registered and was never asked to stop.
C15_Witness ==
    /\ mode = "multi"
    /\ pc = "active"
    /\ folders = {2}
    /\ DOMAIN clients = {UriKey(2)}
    /\ sessions[clients[UriKey(2)]].stops = 0
    /\ \E i \in DOMAIN sessions :
         sessions[i].key = UriKey(1) /\ sessions[i].stops = 1

\* C16: in multi-root mode every key of the registry is the key of a
\* folder that is in the workspace now.
C16_KeysAreCurrentRoots ==
    mode = "multi" => DOMAIN clients \subseteq {UriKey(r) : r \in folders}

\* A folder that had a session has left the workspace and the registry,
\* and a later folder event has found nothing more to remove.
C16_Witness ==
    /\ mode = "multi"
    /\ clients = EmptyMap
    /\ \E i \in DOMAIN sessions :
         /\ sessions[i].state = "Stopped"
         /\ sessions[i].stops = 1
         /\ \A r \in folders : sessions[i].key # UriKey(r)

C18_AtMostOneStop ==
    [][pc = "active" =>
         \A i \in DOMAIN sessions' : sessions'[i].stops <= 1]_vars

\* deactivate() has run after a folder removal: one Session was stopped by
\* the removal and is not among the clients deactivate() stopped.
C18_Witness ==
    /\ pc = "deactivating"
    /\ promises # {}
    /\ \E i \in DOMAIN sessions :
         /\ sessions[i].stops = 1
         /\ i \notin promises
    /\ \A i \in DOMAIN sessions : sessions[i].stops = 1

====
